---- MODULE Spec2Model ----
(***************************************************************************)
(* A model of the entity-keyed layout cache NodeCache                      *)
(* (ecs/src/cache/mod.rs): its per-field hash maps, the registration       *)
(* operation NodeCache::add and the accessors of `impl Cache for           *)
(* NodeCache`.                                                             *)
(*                                                                         *)
(* A HashMap<Entity, T> is a function whose domain is its key set.  An f32 *)
(* is stored and loaded without arithmetic, so a few sample values stand   *)
(* for the type.  Option::unwrap on a missing key panics: the call's       *)
(* outcome is recorded as "panic" and the maps are left as they were,      *)
(* since every unwrap in the file precedes the assignment it guards.       *)
(***************************************************************************)
EXTENDS Integers, FiniteSets, TLC

\* The entity handles the callers use.
Entities == {"A", "B"}

\* Sample f32 values: a negative one, zero (the default) and a large one.
F32 == {-1, 0, 120}

\* Sample usize values for the layer map.
Usize == {1, 2}

\* The number of calls made on the cache in one behaviour.
MaxOps == 3

VARIABLES
    cache,   \* the NodeCache: one map per field
    before,  \* the NodeCache as it was when the last call was made
    last,    \* the last call: operation, entity, arguments, outcome, return value
    added,   \* the entities NodeCache::add has been called on
    written, \* per added entity and writable field: the value of the most
             \* recent write since the entity's most recent add
    nops     \* the number of calls made so far

vars == <<cache, before, last, added, written, nops>>

----------------------------------------------------------------------------
(* Value types *)

\* Option<T>: Some(v) and None.
Some(v) == <<v>>

None == <<>>

\* Rect::default()
RectDefault == [posx |-> 0, posy |-> 0, width |-> 0, height |-> 0]

\* Space::default()
SpaceDefault == [left |-> 0, right |-> 0, top |-> 0, bottom |-> 0]

\* Size::default()
SizeDefault == [width |-> 0, height |-> 0]

\* The named bits of morphorm::GeometryChanged.
Flags == {"POSX_CHANGED", "POSY_CHANGED", "WIDTH_CHANGED", "HEIGHT_CHANGED"}

\* GeometryChanged::default(): no bit set.  A bit-set is the set of its bits.
GeometryChangedDefault == {}

\* GeometryChanged::set(flag, value): insert the bit or remove it.
GeometryChanged_set(bits, flag, value) ==
    IF value THEN bits \cup {flag} ELSE bits \ {flag}

----------------------------------------------------------------------------
(* HashMap *)

\* HashMap::default(): no key.
EmptyMap == [k \in {} |-> None]

\* A slip in insert: the map rebuilt with the one key, the others dropped.
insert_drops_others(m, k, v) == [x \in {k} |-> v]

\* A slip in insert: every entry of the map given the value, not k's alone.
insert_resets_all(m, k, v) == [x \in DOMAIN m \cup {k} |-> v]

\* HashMap::insert: the entry for k is created or overwritten.
insert(m, k, v) == [x \in DOMAIN m \cup {k} |-> IF x = k THEN v ELSE m[x]]

\* HashMap::get
get(m, k) == IF k \in DOMAIN m THEN Some(m[k]) ELSE None

\* NodeCache::default(): every map empty.
NodeCache ==
    [rect |-> EmptyMap, space |-> EmptyMap, size |-> EmptyMap,
     child_width_max |-> EmptyMap, child_height_max |-> EmptyMap,
     child_width_sum |-> EmptyMap, child_height_sum |-> EmptyMap,
     grid_row_max |-> EmptyMap, grid_col_max |-> EmptyMap,
     horizontal_free_space |-> EmptyMap, horizontal_stretch_sum |-> EmptyMap,
     vertical_free_space |-> EmptyMap, vertical_stretch_sum |-> EmptyMap,
     stack_first_child |-> EmptyMap, stack_last_child |-> EmptyMap,
     geometry_changed |-> EmptyMap, visible |-> EmptyMap,
     layer |-> EmptyMap]

----------------------------------------------------------------------------
(* The accessors by name, and the record of the writes made *)

\* The names of the accessors, by family.
TolerantReads ==
    {"posx", "posy", "width", "height", "left", "right", "top", "bottom",
     "new_width", "new_height"}

TolerantSetters ==
    {"set_posx", "set_posy", "set_width", "set_height", "set_left",
     "set_right", "set_top", "set_bottom", "set_new_width",
     "set_new_height"}

StrictReads ==
    {"child_width_max", "child_width_sum", "child_height_max",
     "child_height_sum", "grid_row_max", "grid_col_max",
     "horizontal_free_space", "vertical_free_space",
     "horizontal_stretch_sum", "vertical_stretch_sum",
     "stack_first_child", "stack_last_child"}

StrictSetters ==
    {"set_child_width_sum", "set_child_height_sum", "set_child_width_max",
     "set_child_height_max", "set_horizontal_free_space",
     "set_vertical_free_space", "set_horizontal_stretch_sum",
     "set_vertical_stretch_sum", "set_stack_first_child",
     "set_stack_last_child"}

\* Every call that writes through an accessor.
Setters == TolerantSetters \cup StrictSetters \cup {"set_visible", "set_geo_changed"}

\* The field that setter op writes, by the name of its read accessor.
FieldOf(op) ==
    CASE op = "set_posx" -> "posx"
      [] op = "set_posy" -> "posy"
      [] op = "set_width" -> "width"
      [] op = "set_height" -> "height"
      [] op = "set_left" -> "left"
      [] op = "set_right" -> "right"
      [] op = "set_top" -> "top"
      [] op = "set_bottom" -> "bottom"
      [] op = "set_new_width" -> "new_width"
      [] op = "set_new_height" -> "new_height"
      [] op = "set_child_width_max" -> "child_width_max"
      [] op = "set_child_width_sum" -> "child_width_sum"
      [] op = "set_child_height_max" -> "child_height_max"
      [] op = "set_child_height_sum" -> "child_height_sum"
      [] op = "set_horizontal_free_space" -> "horizontal_free_space"
      [] op = "set_vertical_free_space" -> "vertical_free_space"
      [] op = "set_horizontal_stretch_sum" -> "horizontal_stretch_sum"
      [] op = "set_vertical_stretch_sum" -> "vertical_stretch_sum"
      [] op = "set_stack_first_child" -> "stack_first_child"
      [] op = "set_stack_last_child" -> "stack_last_child"
      [] op = "set_visible" -> "visible"
      [] op = "set_geo_changed" -> "geometry_changed"

\* What written holds for an entity right after add: no write made yet, so
\* each writable field at its default and each geometry-changed flag clear.
WrittenDefault ==
    [posx |-> 0, posy |-> 0, width |-> 0, height |-> 0,
     left |-> 0, right |-> 0, top |-> 0, bottom |-> 0,
     new_width |-> 0, new_height |-> 0,
     child_width_max |-> 0, child_width_sum |-> 0,
     child_height_max |-> 0, child_height_sum |-> 0,
     horizontal_free_space |-> 0, vertical_free_space |-> 0,
     horizontal_stretch_sum |-> 0, vertical_stretch_sum |-> 0,
     stack_first_child |-> FALSE, stack_last_child |-> FALSE,
     visible |-> TRUE,
     POSX_CHANGED |-> FALSE, POSY_CHANGED |-> FALSE,
     WIDTH_CHANGED |-> FALSE, HEIGHT_CHANGED |-> FALSE]

\* written after the call op(node, args): add(node) starts the record of
\* node anew, a setter called for an entity that has a record notes its value
\* as the field's (or the flag's) most recent write, and any other call,
\* a setter called for an entity without a record included, leaves written.
LastWrites(op, node, args) ==
    IF op = "add"
    THEN [e \in DOMAIN written \cup {node} |->
            IF e = node THEN WrittenDefault ELSE written[e]]
    ELSE IF node \notin DOMAIN written THEN written
    ELSE IF op = "set_geo_changed"
    THEN [written EXCEPT ![node][args[1]] = args[2]]
    ELSE IF op \in Setters
    THEN [written EXCEPT ![node][FieldOf(op)] = args[1]]
    ELSE written

----------------------------------------------------------------------------
(* The outcome of a call *)

\* A call that returned v.
Returned(v) == [status |-> "ok", ret |-> Some(v)]

\* A call that returned (), as every setter does.
Unit == [status |-> "ok", ret |-> None]

\* A call that panicked in Option::unwrap.
Panicked == [status |-> "panic", ret |-> None]

\* One call on the cache: it leaves the maps as c, with outcome result.
Call(op, node, args, c, result) ==
    /\ nops < MaxOps
    /\ nops' = nops + 1
    /\ cache' = c
    /\ before' = cache
    /\ last' = [op |-> op, node |-> node, args |-> args,
                status |-> result.status, ret |-> result.ret]
    /\ written' = LastWrites(op, node, args)

\* A call of an accessor of `impl Cache for NodeCache`.
Access(op, node, args, c, result) ==
    /\ Call(op, node, args, c, result)
    /\ added' = added

Init ==
    /\ cache = NodeCache
    /\ before = NodeCache
    /\ last = [op |-> "default", node |-> "", args |-> <<>>,
               status |-> "ok", ret |-> None]
    /\ added = {}
    /\ written = EmptyMap
    /\ nops = 0

----------------------------------------------------------------------------
(* NodeCache::add *)

\* A slip in add: visible given bool::default() like the stack flags.
add_entries_visible_default(c, entity) ==
    [c EXCEPT
        !.rect = insert(@, entity, RectDefault),
        !.space = insert(@, entity, SpaceDefault),
        !.child_width_max = insert(@, entity, 0),
        !.child_height_max = insert(@, entity, 0),
        !.child_width_sum = insert(@, entity, 0),
        !.child_height_sum = insert(@, entity, 0),
        !.grid_row_max = insert(@, entity, 0),
        !.grid_col_max = insert(@, entity, 0),
        !.horizontal_free_space = insert(@, entity, 0),
        !.horizontal_stretch_sum = insert(@, entity, 0),
        !.vertical_free_space = insert(@, entity, 0),
        !.vertical_stretch_sum = insert(@, entity, 0),
        !.stack_first_child = insert(@, entity, FALSE),
        !.stack_last_child = insert(@, entity, FALSE),
        !.size = insert(@, entity, SizeDefault),
        !.geometry_changed = insert(@, entity, GeometryChangedDefault),
        !.visible = insert(@, entity, FALSE)]

\* A slip in add: the rect entry made with entry().or_insert(), which keeps
\* an entry that exists.
add_entries_keeps_rect(c, entity) ==
    [c EXCEPT
        !.rect = IF entity \in DOMAIN @ THEN @ ELSE insert(@, entity, RectDefault),
        !.space = insert(@, entity, SpaceDefault),
        !.child_width_max = insert(@, entity, 0),
        !.child_height_max = insert(@, entity, 0),
        !.child_width_sum = insert(@, entity, 0),
        !.child_height_sum = insert(@, entity, 0),
        !.grid_row_max = insert(@, entity, 0),
        !.grid_col_max = insert(@, entity, 0),
        !.horizontal_free_space = insert(@, entity, 0),
        !.horizontal_stretch_sum = insert(@, entity, 0),
        !.vertical_free_space = insert(@, entity, 0),
        !.vertical_stretch_sum = insert(@, entity, 0),
        !.stack_first_child = insert(@, entity, FALSE),
        !.stack_last_child = insert(@, entity, FALSE),
        !.size = insert(@, entity, SizeDefault),
        !.geometry_changed = insert(@, entity, GeometryChangedDefault),
        !.visible = insert(@, entity, TRUE)]

\* The maps after add(entity): an entry with the default value in every map
\* but layer, visible being true.
add_entries(c, entity) ==
    [c EXCEPT
        !.rect = insert(@, entity, RectDefault),
        !.space = insert(@, entity, SpaceDefault),
        !.child_width_max = insert(@, entity, 0),
        !.child_height_max = insert(@, entity, 0),
        !.child_width_sum = insert(@, entity, 0),
        !.child_height_sum = insert(@, entity, 0),
        !.grid_row_max = insert(@, entity, 0),
        !.grid_col_max = insert(@, entity, 0),
        !.horizontal_free_space = insert(@, entity, 0),
        !.horizontal_stretch_sum = insert(@, entity, 0),
        !.vertical_free_space = insert(@, entity, 0),
        !.vertical_stretch_sum = insert(@, entity, 0),
        !.stack_first_child = insert(@, entity, FALSE),
        !.stack_last_child = insert(@, entity, FALSE),
        !.size = insert(@, entity, SizeDefault),
        !.geometry_changed = insert(@, entity, GeometryChangedDefault),
        !.visible = insert(@, entity, TRUE)]

\* A slip in add: the layer map given a default entry like the other maps.
add_defaults_layer(entity) ==
    /\ Call("add", entity, <<>>,
            [add_entries(cache, entity) EXCEPT !.layer = insert(@, entity, 0)], Unit)
    /\ added' = added \cup {entity}

\* A slip in add: one of the seventeen inserts left out, that of size.
add_forgets_size(entity) ==
    /\ Call("add", entity, <<>>,
            [add_entries(cache, entity) EXCEPT !.size = cache.size], Unit)
    /\ added' = added \cup {entity}

add(entity) ==
    /\ Call("add", entity, <<>>, add_entries(cache, entity), Unit)
    /\ added' = added \cup {entity}

\* The caller writes the public layer map: cache.layer.insert(entity, value).
layer_insert(node, value) ==
    Access("layer.insert", node, <<value>>,
           [cache EXCEPT !.layer = insert(@, node, value)], Unit)

----------------------------------------------------------------------------
(* Read accessors, as functions of the cache *)

\* A slip in visible: bool::default() for an entity without an entry.
visible_default_false(c, node) ==
    IF node \in DOMAIN c.visible THEN Returned(c.visible[node]) ELSE Returned(FALSE)

\* NodeCache::visible: true for an entity without an entry.
visible(c, node) ==
    IF node \in DOMAIN c.visible THEN Returned(c.visible[node]) ELSE Returned(TRUE)

\* NodeCache::geometry_changed: the default bit-set for an entity without an entry.
geometry_changed(c, node) ==
    IF node \in DOMAIN c.geometry_changed
    THEN Returned(c.geometry_changed[node])
    ELSE Returned(GeometryChangedDefault)

width(c, node) ==
    IF node \in DOMAIN c.rect THEN Returned(c.rect[node].width) ELSE Returned(0)

height(c, node) ==
    IF node \in DOMAIN c.rect THEN Returned(c.rect[node].height) ELSE Returned(0)

posx(c, node) ==
    IF node \in DOMAIN c.rect THEN Returned(c.rect[node].posx) ELSE Returned(0)

posy(c, node) ==
    IF node \in DOMAIN c.rect THEN Returned(c.rect[node].posy) ELSE Returned(0)

left(c, node) ==
    IF node \in DOMAIN c.space THEN Returned(c.space[node].left) ELSE Returned(0)

right(c, node) ==
    IF node \in DOMAIN c.space THEN Returned(c.space[node].right) ELSE Returned(0)

top(c, node) ==
    IF node \in DOMAIN c.space THEN Returned(c.space[node].top) ELSE Returned(0)

bottom(c, node) ==
    IF node \in DOMAIN c.space THEN Returned(c.space[node].bottom) ELSE Returned(0)

new_width(c, node) ==
    IF node \in DOMAIN c.size THEN Returned(c.size[node].width) ELSE Returned(0)

new_height(c, node) ==
    IF node \in DOMAIN c.size THEN Returned(c.size[node].height) ELSE Returned(0)

\* A slip in child_width_max: unwrap_or_default() in place of unwrap().
child_width_max_or_zero(c, node) ==
    IF node \in DOMAIN c.child_width_max THEN Returned(c.child_width_max[node]) ELSE Returned(0)

child_width_max(c, node) ==
    IF node \in DOMAIN c.child_width_max THEN Returned(c.child_width_max[node]) ELSE Panicked

child_width_sum(c, node) ==
    IF node \in DOMAIN c.child_width_sum THEN Returned(c.child_width_sum[node]) ELSE Panicked

child_height_max(c, node) ==
    IF node \in DOMAIN c.child_height_max THEN Returned(c.child_height_max[node]) ELSE Panicked

child_height_sum(c, node) ==
    IF node \in DOMAIN c.child_height_sum THEN Returned(c.child_height_sum[node]) ELSE Panicked

grid_row_max(c, node) ==
    IF node \in DOMAIN c.grid_row_max THEN Returned(c.grid_row_max[node]) ELSE Panicked

grid_col_max(c, node) ==
    IF node \in DOMAIN c.grid_col_max THEN Returned(c.grid_col_max[node]) ELSE Panicked

horizontal_free_space(c, node) ==
    IF node \in DOMAIN c.horizontal_free_space THEN Returned(c.horizontal_free_space[node]) ELSE Panicked

vertical_free_space(c, node) ==
    IF node \in DOMAIN c.vertical_free_space THEN Returned(c.vertical_free_space[node]) ELSE Panicked

horizontal_stretch_sum(c, node) ==
    IF node \in DOMAIN c.horizontal_stretch_sum THEN Returned(c.horizontal_stretch_sum[node]) ELSE Panicked

vertical_stretch_sum(c, node) ==
    IF node \in DOMAIN c.vertical_stretch_sum THEN Returned(c.vertical_stretch_sum[node]) ELSE Panicked

stack_first_child(c, node) ==
    IF node \in DOMAIN c.stack_first_child THEN Returned(c.stack_first_child[node]) ELSE Panicked

stack_last_child(c, node) ==
    IF node \in DOMAIN c.stack_last_child THEN Returned(c.stack_last_child[node]) ELSE Panicked
----------------------------------------------------------------------------
(* Read accessors, as calls *)

call_visible(node) ==
    Access("visible", node, <<>>, cache, visible(cache, node))

call_geometry_changed(node) ==
    Access("geometry_changed", node, <<>>, cache, geometry_changed(cache, node))

call_width(node) ==
    Access("width", node, <<>>, cache, width(cache, node))

call_height(node) ==
    Access("height", node, <<>>, cache, height(cache, node))

call_posx(node) ==
    Access("posx", node, <<>>, cache, posx(cache, node))

call_posy(node) ==
    Access("posy", node, <<>>, cache, posy(cache, node))

call_left(node) ==
    Access("left", node, <<>>, cache, left(cache, node))

call_right(node) ==
    Access("right", node, <<>>, cache, right(cache, node))

call_top(node) ==
    Access("top", node, <<>>, cache, top(cache, node))

call_bottom(node) ==
    Access("bottom", node, <<>>, cache, bottom(cache, node))

call_new_width(node) ==
    Access("new_width", node, <<>>, cache, new_width(cache, node))

call_new_height(node) ==
    Access("new_height", node, <<>>, cache, new_height(cache, node))

call_child_width_max(node) ==
    Access("child_width_max", node, <<>>, cache, child_width_max(cache, node))

call_child_width_sum(node) ==
    Access("child_width_sum", node, <<>>, cache, child_width_sum(cache, node))

call_child_height_max(node) ==
    Access("child_height_max", node, <<>>, cache, child_height_max(cache, node))

call_child_height_sum(node) ==
    Access("child_height_sum", node, <<>>, cache, child_height_sum(cache, node))

call_grid_row_max(node) ==
    Access("grid_row_max", node, <<>>, cache, grid_row_max(cache, node))

call_grid_col_max(node) ==
    Access("grid_col_max", node, <<>>, cache, grid_col_max(cache, node))

call_horizontal_free_space(node) ==
    Access("horizontal_free_space", node, <<>>, cache, horizontal_free_space(cache, node))

call_vertical_free_space(node) ==
    Access("vertical_free_space", node, <<>>, cache, vertical_free_space(cache, node))

call_horizontal_stretch_sum(node) ==
    Access("horizontal_stretch_sum", node, <<>>, cache, horizontal_stretch_sum(cache, node))

call_vertical_stretch_sum(node) ==
    Access("vertical_stretch_sum", node, <<>>, cache, vertical_stretch_sum(cache, node))

call_stack_first_child(node) ==
    Access("stack_first_child", node, <<>>, cache, stack_first_child(cache, node))

call_stack_last_child(node) ==
    Access("stack_last_child", node, <<>>, cache, stack_last_child(cache, node))
----------------------------------------------------------------------------
(* Write accessors *)

\* A slip in set_geo_changed: the bit-set assigned instead of one bit set.
set_geo_changed_overwrites(node, flag, value) ==
    IF node \in DOMAIN cache.geometry_changed
    THEN Access("set_geo_changed", node, <<flag, value>>,
                [cache EXCEPT !.geometry_changed[node] = IF value THEN {flag} ELSE {}],
                Unit)
    ELSE Access("set_geo_changed", node, <<flag, value>>, cache, Unit)

\* A slip in set_geo_changed: entry().or_default(), which makes the entry.
set_geo_changed_or_default(node, flag, value) ==
    Access("set_geo_changed", node, <<flag, value>>,
           [cache EXCEPT !.geometry_changed =
                insert(@, node,
                       GeometryChanged_set(
                           IF node \in DOMAIN @ THEN @[node] ELSE GeometryChangedDefault,
                           flag, value))],
           Unit)

\* NodeCache::set_geo_changed: nothing happens for an entity without an entry.
set_geo_changed(node, flag, value) ==
    IF node \in DOMAIN cache.geometry_changed
    THEN Access("set_geo_changed", node, <<flag, value>>,
                [cache EXCEPT !.geometry_changed[node] = GeometryChanged_set(@, flag, value)],
                Unit)
    ELSE Access("set_geo_changed", node, <<flag, value>>, cache, Unit)

set_visible(node, value) ==
    IF node \in DOMAIN cache.visible
    THEN Access("set_visible", node, <<value>>, [cache EXCEPT !.visible[node] = value], Unit)
    ELSE Access("set_visible", node, <<value>>, cache, Panicked)

\* A slip in set_child_width_sum: the value added to the sum, not assigned.
set_child_width_sum_accumulates(node, value) ==
    IF node \in DOMAIN cache.child_width_sum
    THEN Access("set_child_width_sum", node, <<value>>,
                [cache EXCEPT !.child_width_sum[node] = @ + value], Unit)
    ELSE Access("set_child_width_sum", node, <<value>>, cache, Panicked)

set_child_width_sum(node, value) ==
    IF node \in DOMAIN cache.child_width_sum
    THEN Access("set_child_width_sum", node, <<value>>, [cache EXCEPT !.child_width_sum[node] = value], Unit)
    ELSE Access("set_child_width_sum", node, <<value>>, cache, Panicked)

set_child_height_sum(node, value) ==
    IF node \in DOMAIN cache.child_height_sum
    THEN Access("set_child_height_sum", node, <<value>>, [cache EXCEPT !.child_height_sum[node] = value], Unit)
    ELSE Access("set_child_height_sum", node, <<value>>, cache, Panicked)

set_child_width_max(node, value) ==
    IF node \in DOMAIN cache.child_width_max
    THEN Access("set_child_width_max", node, <<value>>, [cache EXCEPT !.child_width_max[node] = value], Unit)
    ELSE Access("set_child_width_max", node, <<value>>, cache, Panicked)

set_child_height_max(node, value) ==
    IF node \in DOMAIN cache.child_height_max
    THEN Access("set_child_height_max", node, <<value>>, [cache EXCEPT !.child_height_max[node] = value], Unit)
    ELSE Access("set_child_height_max", node, <<value>>, cache, Panicked)

set_horizontal_free_space(node, value) ==
    IF node \in DOMAIN cache.horizontal_free_space
    THEN Access("set_horizontal_free_space", node, <<value>>, [cache EXCEPT !.horizontal_free_space[node] = value], Unit)
    ELSE Access("set_horizontal_free_space", node, <<value>>, cache, Panicked)

set_vertical_free_space(node, value) ==
    IF node \in DOMAIN cache.vertical_free_space
    THEN Access("set_vertical_free_space", node, <<value>>, [cache EXCEPT !.vertical_free_space[node] = value], Unit)
    ELSE Access("set_vertical_free_space", node, <<value>>, cache, Panicked)

set_horizontal_stretch_sum(node, value) ==
    IF node \in DOMAIN cache.horizontal_stretch_sum
    THEN Access("set_horizontal_stretch_sum", node, <<value>>, [cache EXCEPT !.horizontal_stretch_sum[node] = value], Unit)
    ELSE Access("set_horizontal_stretch_sum", node, <<value>>, cache, Panicked)

set_vertical_stretch_sum(node, value) ==
    IF node \in DOMAIN cache.vertical_stretch_sum
    THEN Access("set_vertical_stretch_sum", node, <<value>>, [cache EXCEPT !.vertical_stretch_sum[node] = value], Unit)
    ELSE Access("set_vertical_stretch_sum", node, <<value>>, cache, Panicked)

set_stack_first_child(node, value) ==
    IF node \in DOMAIN cache.stack_first_child
    THEN Access("set_stack_first_child", node, <<value>>, [cache EXCEPT !.stack_first_child[node] = value], Unit)
    ELSE Access("set_stack_first_child", node, <<value>>, cache, Panicked)

set_stack_last_child(node, value) ==
    IF node \in DOMAIN cache.stack_last_child
    THEN Access("set_stack_last_child", node, <<value>>, [cache EXCEPT !.stack_last_child[node] = value], Unit)
    ELSE Access("set_stack_last_child", node, <<value>>, cache, Panicked)

\* A slip in set_width: a new Rect built with the width, the other fields
\* left at their defaults.
set_width_new_rect(node, value) ==
    IF node \in DOMAIN cache.rect
    THEN Access("set_width", node, <<value>>,
                [cache EXCEPT !.rect[node] = [RectDefault EXCEPT !.width = value]], Unit)
    ELSE Access("set_width", node, <<value>>, cache, Unit)

set_width(node, value) ==
    IF node \in DOMAIN cache.rect
    THEN Access("set_width", node, <<value>>, [cache EXCEPT !.rect[node].width = value], Unit)
    ELSE Access("set_width", node, <<value>>, cache, Unit)

\* A slip in set_height: the width field assigned.
set_height_writes_width(node, value) ==
    IF node \in DOMAIN cache.rect
    THEN Access("set_height", node, <<value>>, [cache EXCEPT !.rect[node].width = value], Unit)
    ELSE Access("set_height", node, <<value>>, cache, Unit)

set_height(node, value) ==
    IF node \in DOMAIN cache.rect
    THEN Access("set_height", node, <<value>>, [cache EXCEPT !.rect[node].height = value], Unit)
    ELSE Access("set_height", node, <<value>>, cache, Unit)

\* A slip in set_posx: every entry of the map written, not the node's.
set_posx_every_entry(node, value) ==
    IF node \in DOMAIN cache.rect
    THEN Access("set_posx", node, <<value>>,
                [cache EXCEPT !.rect = [e \in DOMAIN @ |-> [@[e] EXCEPT !.posx = value]]],
                Unit)
    ELSE Access("set_posx", node, <<value>>, cache, Unit)

set_posx(node, value) ==
    IF node \in DOMAIN cache.rect
    THEN Access("set_posx", node, <<value>>, [cache EXCEPT !.rect[node].posx = value], Unit)
    ELSE Access("set_posx", node, <<value>>, cache, Unit)

set_posy(node, value) ==
    IF node \in DOMAIN cache.rect
    THEN Access("set_posy", node, <<value>>, [cache EXCEPT !.rect[node].posy = value], Unit)
    ELSE Access("set_posy", node, <<value>>, cache, Unit)

\* A slip in set_left: entry().or_default(), which makes the entry.
set_left_or_default(node, value) ==
    Access("set_left", node, <<value>>,
           [cache EXCEPT !.space =
                insert(@, node,
                       [(IF node \in DOMAIN @ THEN @[node] ELSE SpaceDefault)
                            EXCEPT !.left = value])],
           Unit)

set_left(node, value) ==
    IF node \in DOMAIN cache.space
    THEN Access("set_left", node, <<value>>, [cache EXCEPT !.space[node].left = value], Unit)
    ELSE Access("set_left", node, <<value>>, cache, Unit)

set_right(node, value) ==
    IF node \in DOMAIN cache.space
    THEN Access("set_right", node, <<value>>, [cache EXCEPT !.space[node].right = value], Unit)
    ELSE Access("set_right", node, <<value>>, cache, Unit)

set_top(node, value) ==
    IF node \in DOMAIN cache.space
    THEN Access("set_top", node, <<value>>, [cache EXCEPT !.space[node].top = value], Unit)
    ELSE Access("set_top", node, <<value>>, cache, Unit)

set_bottom(node, value) ==
    IF node \in DOMAIN cache.space
    THEN Access("set_bottom", node, <<value>>, [cache EXCEPT !.space[node].bottom = value], Unit)
    ELSE Access("set_bottom", node, <<value>>, cache, Unit)

set_new_width(node, value) ==
    IF node \in DOMAIN cache.size
    THEN Access("set_new_width", node, <<value>>, [cache EXCEPT !.size[node].width = value], Unit)
    ELSE Access("set_new_width", node, <<value>>, cache, Unit)

set_new_height(node, value) ==
    IF node \in DOMAIN cache.size
    THEN Access("set_new_height", node, <<value>>, [cache EXCEPT !.size[node].height = value], Unit)
    ELSE Access("set_new_height", node, <<value>>, cache, Unit)
----------------------------------------------------------------------------
Next ==
    \E node \in Entities :
        \/ add(node)
        \/ call_visible(node)
        \/ call_geometry_changed(node)
        \/ call_width(node)
        \/ call_height(node)
        \/ call_posx(node)
        \/ call_posy(node)
        \/ call_left(node)
        \/ call_right(node)
        \/ call_top(node)
        \/ call_bottom(node)
        \/ call_new_width(node)
        \/ call_new_height(node)
        \/ call_child_width_max(node)
        \/ call_child_width_sum(node)
        \/ call_child_height_max(node)
        \/ call_child_height_sum(node)
        \/ call_grid_row_max(node)
        \/ call_grid_col_max(node)
        \/ call_horizontal_free_space(node)
        \/ call_vertical_free_space(node)
        \/ call_horizontal_stretch_sum(node)
        \/ call_vertical_stretch_sum(node)
        \/ call_stack_first_child(node)
        \/ call_stack_last_child(node)
        \/ \E flag \in Flags, value \in BOOLEAN : set_geo_changed(node, flag, value)
        \/ \E value \in BOOLEAN : set_visible(node, value)
        \/ \E value \in BOOLEAN : set_stack_first_child(node, value)
        \/ \E value \in BOOLEAN : set_stack_last_child(node, value)
        \/ \E value \in F32 : set_child_width_sum(node, value)
        \/ \E value \in F32 : set_child_height_sum(node, value)
        \/ \E value \in F32 : set_child_width_max(node, value)
        \/ \E value \in F32 : set_child_height_max(node, value)
        \/ \E value \in F32 : set_horizontal_free_space(node, value)
        \/ \E value \in F32 : set_vertical_free_space(node, value)
        \/ \E value \in F32 : set_horizontal_stretch_sum(node, value)
        \/ \E value \in F32 : set_vertical_stretch_sum(node, value)
        \/ \E value \in F32 : set_width(node, value)
        \/ \E value \in F32 : set_height(node, value)
        \/ \E value \in F32 : set_posx(node, value)
        \/ \E value \in F32 : set_posy(node, value)
        \/ \E value \in F32 : set_left(node, value)
        \/ \E value \in F32 : set_right(node, value)
        \/ \E value \in F32 : set_top(node, value)
        \/ \E value \in F32 : set_bottom(node, value)
        \/ \E value \in F32 : set_new_width(node, value)
        \/ \E value \in F32 : set_new_height(node, value)
        \/ \E value \in Usize : layer_insert(node, value)

Spec == Init /\ [][Next]_vars

----------------------------------------------------------------------------
(* Vocabulary of the properties *)

\* The maps NodeCache::add gives an entry in: all of them but layer.
RegisteredMaps == DOMAIN NodeCache \ {"layer"}

\* The entry of node in each of the maps ms, None where it has none.
Entry(c, ms, node) == [f \in ms |-> get(c[f], node)]

\* The read accessor of the field that setter op writes.
ReadBack(op, c, node) ==
    CASE op = "set_posx" -> posx(c, node)
      [] op = "set_posy" -> posy(c, node)
      [] op = "set_width" -> width(c, node)
      [] op = "set_height" -> height(c, node)
      [] op = "set_left" -> left(c, node)
      [] op = "set_right" -> right(c, node)
      [] op = "set_top" -> top(c, node)
      [] op = "set_bottom" -> bottom(c, node)
      [] op = "set_new_width" -> new_width(c, node)
      [] op = "set_new_height" -> new_height(c, node)
      [] op = "set_child_width_sum" -> child_width_sum(c, node)
      [] op = "set_child_height_sum" -> child_height_sum(c, node)
      [] op = "set_child_width_max" -> child_width_max(c, node)
      [] op = "set_child_height_max" -> child_height_max(c, node)
      [] op = "set_horizontal_free_space" -> horizontal_free_space(c, node)
      [] op = "set_vertical_free_space" -> vertical_free_space(c, node)
      [] op = "set_horizontal_stretch_sum" -> horizontal_stretch_sum(c, node)
      [] op = "set_vertical_stretch_sum" -> vertical_stretch_sum(c, node)
      [] op = "set_stack_first_child" -> stack_first_child(c, node)
      [] op = "set_stack_last_child" -> stack_last_child(c, node)
      [] op = "set_visible" -> visible(c, node)

\* What every read accessor gives for node.
Reads(c, node) ==
    <<visible(c, node),
      geometry_changed(c, node),
      posx(c, node),
      posy(c, node),
      width(c, node),
      height(c, node),
      left(c, node),
      right(c, node),
      top(c, node),
      bottom(c, node),
      new_width(c, node),
      new_height(c, node),
      child_width_max(c, node),
      child_width_sum(c, node),
      child_height_max(c, node),
      child_height_sum(c, node),
      grid_row_max(c, node),
      grid_col_max(c, node),
      horizontal_free_space(c, node),
      vertical_free_space(c, node),
      horizontal_stretch_sum(c, node),
      vertical_stretch_sum(c, node),
      stack_first_child(c, node),
      stack_last_child(c, node)>>

\* The reads that are 0.0 by default.
ScalarDefaults(c, node) ==
    /\ posx(c, node) = Returned(0)
    /\ posy(c, node) = Returned(0)
    /\ width(c, node) = Returned(0)
    /\ height(c, node) = Returned(0)
    /\ left(c, node) = Returned(0)
    /\ right(c, node) = Returned(0)
    /\ top(c, node) = Returned(0)
    /\ bottom(c, node) = Returned(0)
    /\ new_width(c, node) = Returned(0)
    /\ new_height(c, node) = Returned(0)

----------------------------------------------------------------------------
(* Properties *)

\* C1: for every entity add was never called on, in every reachable state,
\* the ten Rect, Space and Size reads return 0.0, visible returns true and
\* geometry_changed returns the bit-set with no flag set; a call of one of
\* these reads for such an entity never fails.
C1_UnregisteredReadsDefault ==
    /\ \A e \in Entities \ added :
        /\ ScalarDefaults(cache, e)
        /\ visible(cache, e) = Returned(TRUE)
        /\ geometry_changed(cache, e) = Returned({})
    /\ (/\ last.op \in TolerantReads \cup {"visible", "geometry_changed"}
        /\ last.node \notin added)
       => last.status = "ok"

\* C1's case: an entity never added, on which a tolerant write was just
\* attempted, while another entity holds a written width.
C1_Witness ==
    /\ last.op = "set_width"
    /\ last.args = <<120>>
    /\ last.node \notin added
    /\ \E e \in added : width(cache, e) = Returned(120)

\* C2: right after add(e), whatever the state before, every accumulator of e
\* reads 0.0, both stack flags read false, visible reads true,
\* geometry_changed has no flag set and the Rect, Space and Size fields
\* read 0.0.
C2_AddGivesDefaults ==
    last.op = "add" =>
        LET e == last.node IN
        /\ child_width_max(cache, e) = Returned(0)
        /\ child_height_max(cache, e) = Returned(0)
        /\ child_width_sum(cache, e) = Returned(0)
        /\ child_height_sum(cache, e) = Returned(0)
        /\ grid_row_max(cache, e) = Returned(0)
        /\ grid_col_max(cache, e) = Returned(0)
        /\ horizontal_free_space(cache, e) = Returned(0)
        /\ horizontal_stretch_sum(cache, e) = Returned(0)
        /\ vertical_free_space(cache, e) = Returned(0)
        /\ vertical_stretch_sum(cache, e) = Returned(0)
        /\ stack_first_child(cache, e) = Returned(FALSE)
        /\ stack_last_child(cache, e) = Returned(FALSE)
        /\ visible(cache, e) = Returned(TRUE)
        /\ geometry_changed(cache, e) = Returned({})
        /\ ScalarDefaults(cache, e)

\* C2's case: a first add(e) made on a cache that already holds another
\* entity with a written field.
C2_Witness ==
    /\ last.op = "add"
    /\ last.node \notin DOMAIN before.rect
    /\ \E e \in DOMAIN before.rect : before.rect[e] # RectDefault

\* C3: a write of v to a writable field of a registered entity succeeds and
\* the read of that field right after it returns v.
C3_WriteThenRead ==
    (/\ last.op \in TolerantSetters \cup StrictSetters \cup {"set_visible"}
     /\ last.node \in added)
    => /\ last.status = "ok"
       /\ ReadBack(last.op, cache, last.node) = Returned(last.args[1])

\* C3's case: a negative value written to an accumulator of a registered
\* entity that held another value.
C3_Witness ==
    /\ last.op = "set_vertical_stretch_sum"
    /\ last.node \in added
    /\ last.args = <<-1>>
    /\ before.vertical_stretch_sum[last.node] # -1

\* C4: add(e) on an entity that already has its entries resets them: the
\* entries of e in every map add writes are those a single add(e) gives on
\* a new cache, whatever was written to e before.  (The layer map, which add
\* never writes and which no accessor of the Cache impl writes, is the
\* subject of C12.)
C4_ReAddResets ==
    (/\ last.op = "add"
     /\ last.node \in DOMAIN before.rect)
    => /\ Entry(cache, RegisteredMaps, last.node)
            = Entry(add_entries(NodeCache, last.node), RegisteredMaps, last.node)
       /\ Reads(cache, last.node) = Reads(add_entries(NodeCache, last.node), last.node)

\* C4's case: add(e) made again on an entity whose entries held written
\* values.
C4_Witness ==
    /\ last.op = "add"
    /\ last.node \in DOMAIN before.rect
    /\ Entry(before, RegisteredMaps, last.node)
            # Entry(add_entries(NodeCache, last.node), RegisteredMaps, last.node)

\* C5: set_geo_changed(e, a, value) on a registered entity leaves every
\* flag b other than a as it was, for value true and for value false.
C5_FlagIndependence ==
    (/\ last.op = "set_geo_changed"
     /\ last.node \in added)
    => \A b \in Flags \ {last.args[1]} :
            b \in geometry_changed(cache, last.node).ret[1]
                <=> b \in geometry_changed(before, last.node).ret[1]

\* C5's case: set_geo_changed acted on one flag of a registered entity
\* while another of its flags was set.
C5_Witness ==
    /\ last.op = "set_geo_changed"
    /\ last.node \in added
    /\ before.geometry_changed[last.node] \ {last.args[1]} # {}

\* C6: a write through any write accessor to entity e1 changes no entry and
\* no read of any other entity e2, registered or not.
C6_Isolation ==
    last.op \in Setters =>
        \A e2 \in Entities \ {last.node} :
            /\ Entry(cache, DOMAIN NodeCache, e2) = Entry(before, DOMAIN NodeCache, e2)
            /\ Reads(cache, e2) = Reads(before, e2)

\* C6's case: a write that changed an entry of e1 while another entity was
\* registered.
C6_Witness ==
    /\ last.op \in Setters
    /\ cache # before
    /\ \E e2 \in added : e2 # last.node

\* C7: a write to a Rect, Space or Size field of an entity that is not
\* registered does not fail, changes nothing in the cache, leaves the entity
\* without an entry in any map, and the field still reads 0.0.
C7_TolerantWriteNoOp ==
    (/\ last.op \in TolerantSetters
     /\ last.node \notin added)
    => /\ last.status = "ok"
       /\ cache = before
       /\ \A f \in RegisteredMaps : last.node \notin DOMAIN cache[f]
       /\ ReadBack(last.op, cache, last.node) = Returned(0)

\* C7's case: a non-zero value written to a Size field of an entity never
\* added.
C7_Witness ==
    /\ last.op = "set_new_height"
    /\ last.node \notin added
    /\ last.args = <<120>>

\* C8: set_geo_changed on an entity that is not registered does not fail,
\* changes nothing in the cache, and geometry_changed still returns the
\* bit-set with no flag set, also for value true.
C8_GeoChangedNoOp ==
    (/\ last.op = "set_geo_changed"
     /\ last.node \notin added)
    => /\ last.status = "ok"
       /\ cache = before
       /\ last.node \notin DOMAIN cache.geometry_changed
       /\ geometry_changed(cache, last.node) = Returned({})

\* C8's case: a flag set to true for an entity never added.
C8_Witness ==
    /\ last.op = "set_geo_changed"
    /\ last.node \notin added
    /\ last.args[2] = TRUE

\* C9: every read and every write of an accumulator or of a stack flag for
\* an entity that is not registered panics, and leaves the cache as it was,
\* with no entry for the entity.
C9_StrictAccessorsPanic ==
    (/\ last.op \in StrictReads \cup StrictSetters
     /\ last.node \notin added)
    => /\ last.status = "panic"
       /\ cache = before
       /\ \A f \in RegisteredMaps : last.node \notin DOMAIN cache[f]

\* C9's case: a strict accessor called for an entity never added.
C9_Witness ==
    /\ last.op \in StrictReads \cup StrictSetters
    /\ last.node \notin added

\* C10: set_visible on an entity that is not registered is a no-op that is
\* never an error, visible still returning true after it; and no read or
\* write of a Rect, Space, Size, visible or geometry-changed field fails,
\* for any entity in any reachable state.
C10_TolerantNeverFails ==
    /\ last.op \in TolerantReads \cup TolerantSetters
            \cup {"visible", "set_visible", "geometry_changed", "set_geo_changed"}
       => last.status = "ok"
    /\ (last.op = "set_visible" /\ last.node \notin added)
       => /\ cache = before
          /\ visible(cache, last.node) = Returned(TRUE)

\* C11: once add(e) has been called, after any later calls on any entities e
\* has an entry in every map add writes (Rect, Space, Size, the ten
\* accumulators, both stack flags, visible, geometry-changed), and no strict
\* accessor called for e panics.
C11_RegistrationPersists ==
    /\ \A e \in added : \A f \in RegisteredMaps : e \in DOMAIN cache[f]
    /\ \A e \in added :
        LET reads == Reads(cache, e)
        IN  \A i \in DOMAIN reads : reads[i].status = "ok"
    /\ (/\ last.op \in StrictReads \cup StrictSetters
        /\ last.node \in added)
       => last.status = "ok"

\* C11's case: a strict accessor called for an entity added earlier, after
\* an add of another entity.
C11_Witness ==
    /\ last.op = "set_stack_last_child"
    /\ last.node \in added
    /\ \E e \in added : e # last.node

\* C12: add(e) neither creates nor changes a layer entry: the layer map is
\* after add(e) what it was before it, so e has no layer after add(e) unless
\* the caller had set one, and a layer the caller had set is kept.
C12_AddLeavesLayer ==
    last.op = "add" =>
        /\ cache.layer = before.layer
        /\ \A e \in Entities : get(cache.layer, e) = get(before.layer, e)
        /\ last.node \notin DOMAIN before.layer => last.node \notin DOMAIN cache.layer

\* C12's case: add(e) called for an entity whose layer the caller had set.
C12_Witness ==
    /\ last.op = "add"
    /\ last.node \in DOMAIN before.layer
    /\ before.layer[last.node] = 2

\* C13: every read accessor has a write accessor: for each readable field,
\* grid_row_max and grid_col_max included, each registered entity e and each
\* value v other than the default, some call on the cache leads to a state
\* where the read of that field for e returns v.
C13_EveryReadHasWrite ==
    \A e \in added :
        nops < MaxOps =>
        /\ \A v \in F32 \ {0} :
            /\ ENABLED (Next /\ posx(cache', e) = Returned(v))
            /\ ENABLED (Next /\ posy(cache', e) = Returned(v))
            /\ ENABLED (Next /\ width(cache', e) = Returned(v))
            /\ ENABLED (Next /\ height(cache', e) = Returned(v))
            /\ ENABLED (Next /\ left(cache', e) = Returned(v))
            /\ ENABLED (Next /\ right(cache', e) = Returned(v))
            /\ ENABLED (Next /\ top(cache', e) = Returned(v))
            /\ ENABLED (Next /\ bottom(cache', e) = Returned(v))
            /\ ENABLED (Next /\ new_width(cache', e) = Returned(v))
            /\ ENABLED (Next /\ new_height(cache', e) = Returned(v))
            /\ ENABLED (Next /\ child_width_max(cache', e) = Returned(v))
            /\ ENABLED (Next /\ child_width_sum(cache', e) = Returned(v))
            /\ ENABLED (Next /\ child_height_max(cache', e) = Returned(v))
            /\ ENABLED (Next /\ child_height_sum(cache', e) = Returned(v))
            /\ ENABLED (Next /\ grid_row_max(cache', e) = Returned(v))
            /\ ENABLED (Next /\ grid_col_max(cache', e) = Returned(v))
            /\ ENABLED (Next /\ horizontal_free_space(cache', e) = Returned(v))
            /\ ENABLED (Next /\ vertical_free_space(cache', e) = Returned(v))
            /\ ENABLED (Next /\ horizontal_stretch_sum(cache', e) = Returned(v))
            /\ ENABLED (Next /\ vertical_stretch_sum(cache', e) = Returned(v))
        /\ ENABLED (Next /\ stack_first_child(cache', e) = Returned(TRUE))
        /\ ENABLED (Next /\ stack_last_child(cache', e) = Returned(TRUE))
        /\ ENABLED (Next /\ visible(cache', e) = Returned(FALSE))
        /\ \A flag \in Flags :
            ENABLED (Next /\ flag \in geometry_changed(cache', e).ret[1])

\* What every read accessor gives for node, by the accessor's name.
ReadsByName(c, node) ==
    [visible |-> visible(c, node),
     geometry_changed |-> geometry_changed(c, node),
     posx |-> posx(c, node),
     posy |-> posy(c, node),
     width |-> width(c, node),
     height |-> height(c, node),
     left |-> left(c, node),
     right |-> right(c, node),
     top |-> top(c, node),
     bottom |-> bottom(c, node),
     new_width |-> new_width(c, node),
     new_height |-> new_height(c, node),
     child_width_max |-> child_width_max(c, node),
     child_width_sum |-> child_width_sum(c, node),
     child_height_max |-> child_height_max(c, node),
     child_height_sum |-> child_height_sum(c, node),
     grid_row_max |-> grid_row_max(c, node),
     grid_col_max |-> grid_col_max(c, node),
     horizontal_free_space |-> horizontal_free_space(c, node),
     vertical_free_space |-> vertical_free_space(c, node),
     horizontal_stretch_sum |-> horizontal_stretch_sum(c, node),
     vertical_stretch_sum |-> vertical_stretch_sum(c, node),
     stack_first_child |-> stack_first_child(c, node),
     stack_last_child |-> stack_last_child(c, node)]

\* C14: a write to one field of a registered entity e changes only that
\* field: every other read of e returns what it returned before, and the
\* layer of e is as before.  So the fields of a Rect, Space or Size are
\* written one by one, and a Rect write leaves the geometry-changed flags.
C14_FieldFrame ==
    (/\ last.op \in Setters
     /\ last.node \in added)
    => LET now == ReadsByName(cache, last.node)
           then == ReadsByName(before, last.node)
       IN  /\ \A f \in DOMAIN now \ {FieldOf(last.op)} : now[f] = then[f]
           /\ get(cache.layer, last.node) = get(before.layer, last.node)

\* C14's case: posx written for an entity whose width, in the same Rect,
\* holds a written value.
C14_Witness ==
    /\ last.op = "set_posx"
    /\ last.node \in added
    /\ last.args = <<-1>>
    /\ before.rect[last.node].width = 120

\* C15: in every reachable state each map but layer has the same key set,
\* the set of entities add has been called on; no accessor adds or removes
\* a key, so no entity has entries in some of these maps only.
C15_SameKeys ==
    /\ \A f \in RegisteredMaps : DOMAIN cache[f] = added
    /\ last.op # "add" =>
        \A f \in RegisteredMaps : DOMAIN cache[f] = DOMAIN before[f]

\* C15's case: one entity added and the other not, after a setter was called
\* for the one that was not.
C15_Witness ==
    /\ last.op \in Setters
    /\ last.node \notin added
    /\ added # {}

\* C16: add(e1) changes nothing of any other entity e2: the entries of e2 in
\* every map, and with them whether e2 is registered, and every read of e2
\* are after add(e1) what they were before it.
C16_AddIsolation ==
    last.op = "add" =>
        \A e2 \in Entities \ {last.node} :
            /\ Entry(cache, DOMAIN NodeCache, e2) = Entry(before, DOMAIN NodeCache, e2)
            /\ Reads(cache, e2) = Reads(before, e2)
            /\ e2 \in added <=> e2 \in DOMAIN before.rect

\* C16's case: add(e1) called while another entity is registered and holds
\* a written value.
C16_Witness ==
    /\ last.op = "add"
    /\ \E e2 \in Entities \ {last.node} :
        /\ e2 \in DOMAIN before.visible
        /\ before.visible[e2] = FALSE

\* C17: last write wins.  In every reachable state, for every registered
\* entity e, each writable field of e reads the value of the most recent
\* write to that field of e since the most recent add(e), or its default
\* (0.0, false, true for visible) when there was none, and each
\* geometry-changed flag of e is as its most recent set_geo_changed left it,
\* or clear; calls for other entities, writes of other fields and writes
\* made while e was not registered do not count.
C17_LastWriteWins ==
    /\ DOMAIN written = added
    /\ \A e \in added :
        LET reads == ReadsByName(cache, e)
        IN  /\ \A f \in DOMAIN WrittenDefault \ Flags :
                reads[f] = Returned(written[e][f])
            /\ \A flag \in Flags :
                (flag \in reads.geometry_changed.ret[1]) = written[e][flag]

\* C17's case: a field of a registered entity written a second time, with
\* another value.
C17_Witness ==
    /\ last.op = "set_child_width_sum"
    /\ last.node \in added
    /\ last.args = <<-1>>
    /\ before.child_width_sum[last.node] = 120

====
